---------------------------- MODULE Spec2Model ----------------------------
(***************************************************************************)
(* A model of deeppavlov/cv.py: the cross-validation grid search over a   *)
(* pipeline configuration.  main() reads a configuration, collects the     *)
(* '<param>_range' keys and the save paths of the trainable stages, backs  *)
(* the saved models up, evaluates every combination of the grid by         *)
(* k-fold or leave-one-out cross-validation, restores the saved models     *)
(* and writes the best configuration.                                      *)
(*                                                                         *)
(* Strings that the code takes apart (the keys of a stage) are sequences   *)
(* of tokens, "_range" being one token: <<"a", "_range">> is 'a_range'.    *)
(* A stage is a Python dict: a sequence of [k, v] entries with distinct    *)
(* keys, in insertion order.  A file name is a path with or without the    *)
(* '_backuped' suffix appended to it (expand_path is a bijection on        *)
(* names and is left out).  The external collaborators                     *)
(* (train_evaluate_model_from_config, os.rename, KFold's shuffle) are      *)
(* nondeterministic choices over their outcomes.                           *)
(***************************************************************************)
EXTENDS Integers, Sequences, FiniteSets

\* ------------------------------------------------------------------ bounds
\* The largest dataset (len(data['train'] + data['valid'])).
MaxData == 2
\* The scores a fold's evaluation may report are 0..MaxScore.
MaxScore == 2
\* The number of runs of main() over the same files.
MaxRuns == 2
\* The largest dataset of the runs that look at the folds' contents.
MaxItems == 3
\* The scores of the runs that are compared with each other are 0..MaxMarks.
MaxMarks == 1

\* --------------------------------------------------------- program constants
PARAM_RANGE_SUFFIX_NAME == "_range"
SAVE_PATH_ELEMENT_NAME == <<"save_path">>
BACKUP_SUFFIX_FILENAME == "_backuped"

\* ------------------------------------------------------------ the file system
\* The tracked paths a configuration may name.
PathNames == {"m1", "m2"}
\* A file name: a path, with or without the backup suffix appended.  The suffix
\* is reserved: no tracked path is itself another tracked path's backup name.
FileName(p, suffix) == [path |-> p, sfx |-> suffix]
FileNames == {FileName(p, suffix) : p \in PathNames, suffix \in {"", BACKUP_SUFFIX_FILENAME}}
\* What a file name holds: nothing, the user's artifact, or an artifact a fold
\* of run r has trained.
NoFile == [kind |-> "absent", run |-> 0]
UserFile == [kind |-> "user", run |-> 0]
TrainedFile(r) == [kind |-> "trained", run |-> r]

\* os.path.isfile(path)
IsFile(fsys, f) == fsys[f] # NoFile
\* os.remove(path)
OsRemove(fsys, f) == [fsys EXCEPT ![f] = NoFile]
\* A rename that leaves at src what dst held.
OsRename_Swap(fsys, src, dst) == [fsys EXCEPT ![dst] = fsys[src], ![src] = fsys[dst]]

\* os.rename(src, dst) on success: an existing dst is replaced silently, as on
\* POSIX systems.
OsRename(fsys, src, dst) == [fsys EXCEPT ![dst] = fsys[src], ![src] = NoFile]

\* ------------------------------------------------------- dicts (ordered)
Entry(key, val) == [k |-> key, v |-> val]
\* The values of a dict: a number, a list of numbers (the candidates of a
\* range key), a path, a flag-like value the search never reads, or a mean
\* score n/d (d = 0: nan).
ScalarVal(n) == [tag |-> "scalar", n |-> n, d |-> 1, l |-> <<>>, p |-> ""]
ListVal(l) == [tag |-> "list", n |-> 0, d |-> 1, l |-> l, p |-> ""]
PathVal(p) == [tag |-> "path", n |-> 0, d |-> 1, l |-> <<>>, p |-> p]
MeanVal(n, d) == [tag |-> "mean", n |-> n, d |-> d, l |-> <<>>, p |-> ""]

HasKey(d, key) == \E i \in 1..Len(d) : d[i].k = key
DictGet(d, key) == d[CHOOSE i \in 1..Len(d) : d[i].k = key].v
\* d[key] = val: an existing key keeps its position.
DictSet(d, key, val) ==
    IF HasKey(d, key)
    THEN [i \in 1..Len(d) |-> IF d[i].k = key THEN Entry(key, val) ELSE d[i]]
    ELSE Append(d, Entry(key, val))
\* d.pop(key) for a key that is present.
DictPop(d, key) == SelectSeq(d, LAMBDA e : e.k # key)
DictKeys(d) == [i \in 1..Len(d) |-> d[i].k]


\* ------------------------------------------- the three artifact operations
\* A delete that leaves the file.
DeleteOne_Keep(fsys, model_path) == fsys

\* One iteration of delete_saved_model's loop.
DeleteOne(fsys, model_path) ==
    LET path == FileName(model_path, "")
    IN  IF IsFile(fsys, path) THEN OsRemove(fsys, path) ELSE fsys

\* A backup that removes the file instead of renaming it.
BackupOne_Remove(fsys, model_path) ==
    LET path == FileName(model_path, "")
    IN  IF IsFile(fsys, path) THEN OsRemove(fsys, path) ELSE fsys

\* A backup that renames without looking whether the path holds a file.
BackupOne_Unchecked(fsys, model_path) ==
    OsRename(fsys, FileName(model_path, ""), FileName(model_path, BACKUP_SUFFIX_FILENAME))

\* One iteration of backup_saved_models' loop, os.rename succeeding.
BackupOne(fsys, model_path) ==
    LET path == FileName(model_path, "")
    IN  IF IsFile(fsys, path)
        THEN OsRename(fsys, path, FileName(model_path, BACKUP_SUFFIX_FILENAME))
        ELSE fsys

\* A restore that renames nothing.
RestoreOne_Skip(fsys, model_path) == fsys

\* A restore that copies the backup and leaves it.
RestoreOne_Copy(fsys, model_path) ==
    LET path == FileName(model_path, "")
        backuped_path == FileName(model_path, BACKUP_SUFFIX_FILENAME)
    IN  IF IsFile(fsys, backuped_path)
        THEN [fsys EXCEPT ![path] = fsys[backuped_path]]
        ELSE fsys

\* One iteration of restore_saved_models' loop, os.rename succeeding.
RestoreOne(fsys, model_path) ==
    LET path == FileName(model_path, "")
        backuped_path == FileName(model_path, BACKUP_SUFFIX_FILENAME)
    IN  IF IsFile(fsys, backuped_path)
        THEN OsRename(fsys, backuped_path, path)
        ELSE fsys

RECURSIVE delete_saved_model(_, _)
delete_saved_model(fsys, models_paths) ==
    IF models_paths = <<>> THEN fsys
    ELSE delete_saved_model(DeleteOne(fsys, Head(models_paths)), Tail(models_paths))

\* A backup that stops after the first path.
backup_saved_models_First(fsys, models_paths) ==
    IF models_paths = <<>> THEN fsys ELSE BackupOne(fsys, Head(models_paths))

RECURSIVE backup_saved_models(_, _)
backup_saved_models(fsys, models_paths) ==
    IF models_paths = <<>> THEN fsys
    ELSE backup_saved_models(BackupOne(fsys, Head(models_paths)), Tail(models_paths))

RECURSIVE restore_saved_models(_, _)
restore_saved_models(fsys, models_paths) ==
    IF models_paths = <<>> THEN fsys
    ELSE restore_saved_models(RestoreOne(fsys, Head(models_paths)), Tail(models_paths))

\* -------------------------------------------------- the search preparation
\* key.endswith(suffix)
EndsWith(key, suffix) == Len(key) > 0 /\ key[Len(key)] = suffix
\* key.partition(sep)[0]: the part before the first occurrence of sep, the
\* whole key when sep does not occur.
PartitionHead(key, sep) ==
    IF \E i \in 1..Len(key) : key[i] = sep
    THEN SubSeq(key, 1, (CHOOSE i \in 1..Len(key) :
                            key[i] = sep /\ \A j \in 1..(i-1) : key[j] # sep) - 1)
    ELSE key

\* A test that takes every stage with a save path.
TracksPath_AnySaved(elem) == HasKey(elem, SAVE_PATH_ELEMENT_NAME)

\* The stage is trainable and names a save path (line 139).
TracksPath(elem) ==
    /\ (HasKey(elem, <<"in_y">>) \/ HasKey(elem, <<"fit_on">>) \/ HasKey(elem, <<"fit_on_batch">>))
    /\ HasKey(elem, SAVE_PATH_ELEMENT_NAME)

\* The loop over one stage's keys (lines 134-138), from key number j on:
\* acc = [param_values, chainer_items], i the stage's index (0-based).
RECURSIVE ScanKeys(_, _, _, _)
ScanKeys(elem, i, j, acc) ==
    IF j > Len(elem) THEN acc
    ELSE LET key == elem[j].k
         IN  IF EndsWith(key, PARAM_RANGE_SUFFIX_NAME)
             THEN ScanKeys(elem, i, j + 1,
                    [param_values |-> DictSet(acc.param_values,
                                              PartitionHead(key, PARAM_RANGE_SUFFIX_NAME),
                                              elem[j].v),
                     chainer_items |-> Append(acc.chainer_items, i),
                     models_paths |-> acc.models_paths])
             ELSE ScanKeys(elem, i, j + 1, acc)

\* The loop over the stages (lines 130-140), from stage number n (1-based) on.
RECURSIVE ScanPipe(_, _, _)
ScanPipe(pipeline, n, acc) ==
    IF n > Len(pipeline) THEN acc
    ELSE LET elem == pipeline[n]
             a == ScanKeys(elem, n - 1, 1, acc)
         IN  ScanPipe(pipeline, n + 1,
                IF TracksPath(elem)
                THEN [a EXCEPT !.models_paths =
                        Append(@, DictGet(elem, SAVE_PATH_ELEMENT_NAME).p)]
                ELSE a)

PrepareSearch(pipeline) ==
    ScanPipe(pipeline, 1, [param_values |-> <<>>, chainer_items |-> <<>>, models_paths |-> <<>>])


\* ------------------------------------------------------------ the grid
\* list(product(*lists)): the last list varies fastest.
RECURSIVE Product(_)
Product(lists) ==
    IF lists = <<>> THEN << <<>> >>
    ELSE LET h == Head(lists)
             rest == Product(Tail(lists))
             nr == Len(rest)
         IN  [c \in 1..(Len(h) * nr) |->
                <<h[((c - 1) \div nr) + 1]>> \o rest[((c - 1) % nr) + 1]]

\* The candidate lists of param_values.values().
CandidateLists(pv) == [i \in 1..Len(pv) |-> pv[i].v.l]

\* Lines 154-155 from position i (1-based) of comb on:
\* config['chainer']['pipe'][chainer_items[i]][param_names[i]] = param_value.
RECURSIVE ApplyComb(_, _, _, _, _)
ApplyComb(pipeline, comb, items, names, i) ==
    IF i > Len(comb) THEN pipeline
    ELSE ApplyComb([pipeline EXCEPT ![items[i] + 1] = DictSet(@, names[i], ScalarVal(comb[i]))],
                   comb, items, names, i + 1)

\* ------------------------------------------------------------ the folds
Fold(tr, va) == [train |-> tr, valid |-> va, test |-> <<>>]
\* A pop that takes the last element whatever the position asked.
PopAt_Last(s, i) == SubSeq(s, 1, Len(s) - 1)

\* all_data.copy() with the element at position i (1-based) popped.
PopAt(s, i) == SubSeq(s, 1, i - 1) \o SubSeq(s, i + 1, Len(s))
\* A leave-one-out that never leaves the last item out.
LooFolds_Short(all_data) ==
    [i \in 1..(Len(all_data) - 1) |-> Fold(PopAt(all_data, i), <<all_data[i]>>)]

\* The splits of calc_loocv_score, in order (lines 78-82).
LooFolds(all_data) ==
    [i \in 1..Len(all_data) |-> Fold(PopAt(all_data, i), <<all_data[i]>>)]

\* The orders shuffle=True may put the indices 1..n in.
Shuffles(n) ==
    {f \in [1..n -> 1..n] : \A i, j \in 1..n : i # j => f[i] # f[j]}
\* KFold(n_splits=k, shuffle=True).split: the shuffled indices are cut into k
\* consecutive folds, the first m % k of size m \div k + 1, the others of
\* size m \div k; a fold's validation and training indices come in
\* increasing order.
\* A cut that forgets the larger first folds.
FoldStart_Even(m, k, f) == (f - 1) * (m \div k)

FoldStart(m, k, f) == (f - 1) * (m \div k) + (IF f - 1 < m % k THEN f - 1 ELSE m % k)
FoldSize(m, k, f) == (m \div k) + (IF f <= m % k THEN 1 ELSE 0)
KFoldValidIdx(m, k, perm, f) ==
    {perm[i] : i \in (FoldStart(m, k, f) + 1)..(FoldStart(m, k, f) + FoldSize(m, k, f))}
\* [all_data[i] for i in index], index the increasing list of the set idx.
RECURSIVE TakeIdx(_, _, _)
TakeIdx(all_data, idx, i) ==
    IF i > Len(all_data) THEN <<>>
    ELSE (IF i \in idx THEN <<all_data[i]>> ELSE <<>>) \o TakeIdx(all_data, idx, i + 1)
KFolds(all_data, k, perm) ==
    LET m == Len(all_data)
    IN  [f \in 1..k |->
            Fold(TakeIdx(all_data, (1..m) \ KFoldValidIdx(m, k, perm, f), 1),
                 TakeIdx(all_data, KFoldValidIdx(m, k, perm, f), 1))]

\* The list objects a scoring call can reach: the three lists of the dataset
\* it is given, and its own all_data and data_i['train'].
Lists(d) ==
    [train |-> d.train, valid |-> d.valid, test |-> d.test,
     all_data |-> <<>>, data_i |-> <<>>]
DataOf(lists) == [train |-> lists.train, valid |-> lists.valid, test |-> lists.test]
\* A concatenation that extends its left operand in place.
ListConcat_Extend(lists, a, b) ==
    [lists EXCEPT ![a] = lists[a] \o lists[b], !.all_data = lists[a] \o lists[b]]

\* all_data = a + b: a new list, the operands are left as they are.
ListConcat(lists, a, b) == [lists EXCEPT !.all_data = lists[a] \o lists[b]]
\* data_i['train'] = a.copy(): a new list.
ListCopy(lists, a) == [lists EXCEPT !.data_i = lists[a]]
\* a.pop(i): the list a itself loses its element at position i (1-based).
ListPop(lists, a, i) == [lists EXCEPT ![a] = PopAt(lists[a], i)]
\* The lists after the folds i.. of calc_loocv_score.
RECURSIVE LooLists(_, _)
LooLists(lists, i) ==
    IF i > Len(lists.all_data) THEN lists
    ELSE LooLists(ListPop(ListCopy(lists, "all_data"), "data_i", i), i + 1)
\* The dataset given to calc_loocv_score and to calc_cvfolds_score, as the
\* call leaves it; the comprehensions of the k-fold only read all_data.
calc_loocv_data(d) == DataOf(LooLists(ListConcat(Lists(d), "train", "valid"), 1))
calc_cvfolds_data(d) == DataOf(ListConcat(Lists(d), "train", "valid"))

\* np.mean(all_scores): the sum over the count, nan for an empty list.
RECURSIVE SumSeq(_)
SumSeq(s) == IF s = <<>> THEN 0 ELSE Head(s) + SumSeq(Tail(s))
Mean_Last(all_scores) == MeanVal(all_scores[Len(all_scores)], 1)
Mean(all_scores) == MeanVal(SumSeq(all_scores), Len(all_scores))

\* ------------------------------------------------------- get_best_params
IsNan(x) == x.d = 0
\* A comparison that lets a later equal score replace the best one.
NotLessEq_Ties(x, y) == x.d = 0 \/ x.n * y.d >= y.n * x.d

\* not (x <= y) on floats: false when y is nan is never asked (the scan stops
\* at the first nan), true when x is nan.
NotLessEq(x, y) == IsNan(x) \/ x.n * y.d > y.n * x.d
\* np.argmax: a left-to-right scan keeping the first maximum, ending at the
\* first nan.  Positions are 1-based here.
RECURSIVE ArgMaxScan(_, _, _)
ArgMaxScan(scores, i, best) ==
    IF i > Len(scores) \/ IsNan(scores[best]) THEN best
    ELSE ArgMaxScan(scores, i + 1, IF NotLessEq(scores[i], scores[best]) THEN i ELSE best)
ArgMax(scores) == ArgMaxScan(scores, 2, 1)

\* dict(zip(param_names, comb))
RECURSIVE ZipDict(_, _, _)
ZipDict(names, comb, d) ==
    IF names = <<>> \/ comb = <<>> THEN d
    ELSE ZipDict(Tail(names), Tail(comb), DictSet(d, Head(names), ScalarVal(Head(comb))))

get_best_params(combs, scores, names, metric) ==
    LET max_id == ArgMax(scores)
    IN  DictSet(ZipDict(names, combs[max_id], <<>>), metric, scores[max_id])


\* ------------------------------------------------------------ the inputs
Flag == ScalarVal(0)
RangeKey(name) == <<name, PARAM_RANGE_SUFFIX_NAME>>
\* A trainable stage saving to path p, with its other entries after.
Trainable(trigger, p, rest) ==
    <<Entry(<<trigger>>, Flag), Entry(SAVE_PATH_ELEMENT_NAME, PathVal(p))>> \o rest

\* The configurations read_json may return: the stages of
\* config['chainer']['pipe'] and config['train']['metrics'].
Config(pipeline) == [pipe |-> pipeline, metrics |-> <<<<"acc">>, <<"f1">>>>]
Configs == {
    \* one axis of three candidates on a trainable stage
    Config(<< Trainable("in_y", "m1", <<Entry(RangeKey("a"), ListVal(<<1, 2, 3>>))>>) >>),
    \* two axes on two trainable stages saving to two paths
    Config(<< Trainable("fit_on", "m1", <<Entry(RangeKey("a"), ListVal(<<1, 2>>))>>),
              Trainable("fit_on_batch", "m2", <<Entry(RangeKey("b"), ListVal(<<3, 4>>))>>) >>),
    \* two axes in one stage, the save path on a stage that is not trainable
    Config(<< <<Entry(SAVE_PATH_ELEMENT_NAME, PathVal("m1")),
                Entry(RangeKey("b"), ListVal(<<1, 2>>)),
                Entry(RangeKey("a"), ListVal(<<3>>))>> >>),
    \* the same parameter name declared by two stages, a third axis after
    Config(<< <<Entry(RangeKey("a"), ListVal(<<1, 2>>))>>,
              Trainable("in_y", "m1", <<Entry(RangeKey("a"), ListVal(<<3>>))>>),
              <<Entry(RangeKey("b"), ListVal(<<4>>))>> >>),
    \* no axis
    Config(<< Trainable("fit_on", "m1", <<Entry(<<"a">>, ScalarVal(1))>>) >>),
    \* an axis with no candidate
    Config(<< Trainable("in_y", "m1", <<Entry(RangeKey("a"), ListVal(<<>>))>>) >>),
    \* a key holding the suffix twice
    Config(<< Trainable("in_y", "m1",
                <<Entry(<<"a", PARAM_RANGE_SUFFIX_NAME, PARAM_RANGE_SUFFIX_NAME>>, ListVal(<<1, 2>>))>>) >>),
    \* two trainable stages saving to the same path
    Config(<< Trainable("fit_on", "m1", <<>>),
              Trainable("in_y", "m1", <<Entry(RangeKey("a"), ListVal(<<1, 2>>))>>) >>),
    \* the same parameter name declared by two stages, one of them trainable
    \* without a save path
    Config(<< <<Entry(RangeKey("a"), ListVal(<<1, 2>>))>>,
              <<Entry(<<"in_y">>, Flag), Entry(RangeKey("a"), ListVal(<<3>>))>> >>),
    \* an axis with no candidate, its parameter name declared again by a
    \* trainable stage
    Config(<< <<Entry(RangeKey("a"), ListVal(<<>>))>>,
              Trainable("in_y", "m1", <<Entry(RangeKey("a"), ListVal(<<3>>))>>) >>)
  }

\* args.folds: 'loo', a digit string (its number), or anything else.
FoldsArgs ==
    {[kind |-> "loo", n |-> 0], [kind |-> "other", n |-> 0]}
        \cup {[kind |-> "digits", n |-> k] : k \in 1..(MaxData + 1)}
SearchTypes == {"grid", "random"}
\* read_data_by_config: m items, the first t in 'train', the rest in 'valid'.
Dataset(m, t) ==
    [train |-> [i \in 1..t |-> i], valid |-> [i \in 1..(m - t) |-> t + i], test |-> <<>>]
\* The datasets of up to MaxData items, the larger half in 'train'.
Datasets == {Dataset(m, (m + 1) \div 2) : m \in 0..MaxData}
\* The files the user has before the first run: an artifact or nothing at each
\* path, and no backup.
UserFileSystems ==
    {fsys \in [FileNames -> {NoFile, UserFile}] :
        \A p \in PathNames : fsys[FileName(p, BACKUP_SUFFIX_FILENAME)] = NoFile}
\* The scores a fold's evaluation may report.
Scores == 0..MaxScore

\* A path is the sequence of its parts, '.json' one part wherever it stands.
\* The files of the disk that a config_path may name, and the configurations
\* shipped under configs/.
ConfigFilesOnDisk ==
    { <<"config", ".json">>, <<"config">>, <<"config", ".yaml">>,
      <<"config", ".json", ".bak">>, <<"configs/", "intents", ".json">> }
DefaultConfigPath == <<"config", ".json">>
\* find_config: a path that is a file is kept; otherwise the name is looked up
\* under configs/ with '.json' appended and the match, if any, replaces it.
find_config(pipeline_config_path) ==
    IF pipeline_config_path \in ConfigFilesOnDisk THEN pipeline_config_path
    ELSE LET found == <<"configs/">> \o pipeline_config_path \o <<".json">>
         IN  IF found \in ConfigFilesOnDisk THEN found ELSE pipeline_config_path
\* str.replace(old, new): every occurrence is replaced.
StrReplace(str, old, new) == [i \in 1..Len(str) |-> IF str[i] = old THEN new ELSE str[i]]
\* pipeline_config_path.replace('.json', '_cvbest.json')
best_model_filename(pipeline_config_path) ==
    StrReplace(pipeline_config_path, ".json", "_cvbest.json")

\* ------------------------------------------------------------ the state
VARIABLES
    pc,               \* where main() is
    err,              \* the exception that ended the run, "" for none
    run,              \* the number of this run of main()
    config_json,      \* the configuration file
    args,             \* the command line: folds, search_type, config_path
    data,             \* read_data_by_config(config)
    pipe,             \* config['chainer']['pipe']: config, config_init and
                      \* config_best_model are shallow copies and share it
    target_metric,
    param_values, chainer_items, models_paths,
    combinations, param_names, scores,
    ci,               \* the position of comb in combinations (1-based)
    folds, fi,        \* the splits of the running calc_*_score and the position in them
    all_scores,
    best_params_dict,
    fs,               \* the file system
    fs0,              \* the file system when this run started
    saved,            \* the best-configuration file: <<>> or <<its content>>
    source,           \* what the run draws from: the shuffles of the random
                      \* source and the scores of the fit+evaluate collaborator
    first,            \* what the run before has produced, <<>> when it has
                      \* not completed or there is none
    calls             \* how many times the run has called backup_saved_models,
                      \* delete_saved_model in a fold evaluator (reset) and
                      \* train_evaluate_model_from_config (fit)

vars == <<pc, err, run, config_json, args, data, pipe, target_metric, param_values,
          chainer_items, models_paths, combinations, param_names, scores, ci, folds,
          fi, all_scores, best_params_dict, fs, fs0, saved, source, first,
          calls>>

inputs == <<config_json, args, data, source>>
prepared == <<target_metric, param_values, chainer_items, models_paths>>
grid == <<combinations, param_names>>
cv == <<folds, fi, all_scores>>

\* The locals of main() before it runs.
FreshLocals ==
    /\ pc = "main" /\ err = ""
    /\ target_metric = <<>>
    /\ param_values = <<>> /\ chainer_items = <<>> /\ models_paths = <<>>
    /\ combinations = <<>> /\ param_names = <<>> /\ scores = <<>> /\ ci = 1
    /\ folds = <<>> /\ fi = 1 /\ all_scores = <<>>
    /\ best_params_dict = <<>>

\* The calls of a run so far, and the metric the last evaluated fold was read
\* by.
NoCalls == [backup |-> 0, reset |-> 0, fit |-> 0, metric |-> <<>>]
\* Runs that are not compared draw from no recorded source.
NoSource == [shuffles |-> <<>>, score |-> <<>>]

InitWith(filesystems) ==
    /\ config_json \in Configs
    /\ args \in [folds : FoldsArgs, search_type : SearchTypes, config_path : {DefaultConfigPath}]
    /\ data \in Datasets
    /\ fs \in filesystems
    /\ fs0 = fs
    /\ run = 1
    /\ pipe = config_json.pipe
    /\ saved = <<>>
    /\ source = NoSource
    /\ first = <<>>
    /\ calls = NoCalls
    /\ FreshLocals


\* ------------------------------------------------------------ main()
\* Lines 118-140: read the configuration and the data, take the target
\* metric, collect the axes and the paths to track.
\* A target metric taken from the end of the list.
TargetMetric_Last(config_init) == config_init.metrics[Len(config_init.metrics)]

\* config_init['train']['metrics'][0]
TargetMetric(config_init) == config_init.metrics[1]

Prepare ==
    /\ pc = "main"
    /\ IF find_config(args.config_path) \in ConfigFilesOnDisk
       THEN LET found == PrepareSearch(pipe)
            IN  /\ target_metric' = TargetMetric(config_json)
                /\ param_values' = found.param_values
                /\ chainer_items' = found.chainer_items
                /\ models_paths' = found.models_paths
                /\ pc' = "backup"
                /\ err' = err
       ELSE \* read_json finds no file (line 122)
            /\ pc' = "aborted"
            /\ err' = "FileNotFoundError"
            /\ UNCHANGED prepared
    /\ UNCHANGED <<run, first, calls, inputs, pipe, grid, scores, ci, cv, best_params_dict,
                   fs, fs0, saved>>

\* Line 143: backup_saved_models(models_paths).  An os.rename may raise: the
\* renames of the paths before it are done, the exception ends the run.
Backup ==
    /\ pc = "backup"
    /\ \/ /\ fs' = backup_saved_models(fs, models_paths)
          /\ pc' = "search"
          /\ err' = err
       \/ \E j \in 1..Len(models_paths) :
            LET before == backup_saved_models(fs, SubSeq(models_paths, 1, j - 1))
            IN  /\ IsFile(before, FileName(models_paths[j], ""))
                /\ fs' = before
                /\ pc' = "aborted"
                /\ err' = "OSError"
    /\ calls' = [calls EXCEPT !.backup = @ + 1]
    /\ UNCHANGED <<run, first, inputs, pipe, prepared, grid, scores, ci, cv, best_params_dict,
                   fs0, saved>>

\* Lines 146-152 and 168-169: the search type, the combinations.
StartSearch ==
    /\ pc = "search"
    /\ IF args.search_type = "grid"
       THEN /\ combinations' = Product(CandidateLists(param_values))
            /\ param_names' = DictKeys(param_values)
            /\ pc' = "comb"
            /\ err' = err
       ELSE /\ pc' = "aborted"
            /\ err' = "NotImplementedError: search"
            /\ UNCHANGED grid
    /\ scores' = <<>>
    /\ ci' = 1
    /\ UNCHANGED <<run, first, calls, inputs, pipe, prepared, cv, best_params_dict, fs, fs0, saved>>

\* Lines 153-163 up to the first fold of calc_loocv_score / calc_cvfolds_score:
\* the combination is written into the pipe, then the folds are made.
NextComb ==
    /\ pc = "comb"
    /\ ci <= Len(combinations)
    /\ pipe' = ApplyComb(pipe, combinations[ci], chainer_items, param_names, 1)
    /\ LET all_data == data.train \o data.valid
           m == Len(all_data)
       IN  CASE args.folds.kind = "loo" ->
                  /\ err' = err
                  /\ data' = calc_loocv_data(data)
                  /\ IF m = 0
                     THEN \* no fold: np.mean([]) is returned and appended
                          /\ scores' = Append(scores, Mean(<<>>))
                          /\ ci' = ci + 1
                          /\ pc' = "comb"
                          /\ UNCHANGED cv
                     ELSE /\ folds' = LooFolds(all_data)
                          /\ fi' = 1
                          /\ all_scores' = <<>>
                          /\ pc' = "fold"
                          /\ UNCHANGED <<scores, ci>>
            [] args.folds.kind = "digits" ->
                  /\ data' = calc_cvfolds_data(data)
                  /\ IF args.folds.n < 2 \/ args.folds.n > m
                     THEN \* KFold refuses n_splits < 2 and n_splits > n_samples
                          /\ pc' = "aborted"
                          /\ err' = "ValueError"
                          /\ UNCHANGED <<scores, ci, cv>>
                     ELSE /\ \E perm \in Shuffles(m) : folds' = KFolds(all_data, args.folds.n, perm)
                          /\ fi' = 1
                          /\ all_scores' = <<>>
                          /\ err' = err
                          /\ pc' = "fold"
                          /\ UNCHANGED <<scores, ci>>
            [] OTHER ->
                  /\ data' = data
                  /\ pc' = "aborted"
                  /\ err' = "NotImplementedError: CV"
                  /\ UNCHANGED <<scores, ci, cv>>
    /\ UNCHANGED <<run, first, calls, config_json, args, source, prepared, grid, best_params_dict, fs, fs0, saved>>

\* A reset that backs the tracked files up instead of deleting them.
ResetFold_Backup ==
    /\ pc = "fold"
    /\ fs' = backup_saved_models(fs, models_paths)
    /\ pc' = "train"
    /\ calls' = [calls EXCEPT !.reset = @ + 1]
    /\ UNCHANGED <<err, run, first, inputs, pipe, prepared, grid, scores, ci, cv,
                   best_params_dict, fs0, saved>>

\* Lines 79-84 and 98-103: the fold's split is made and the tracked files
\* are deleted.
ResetFold ==
    /\ pc = "fold"
    /\ fs' = delete_saved_model(fs, models_paths)
    /\ pc' = "train"
    /\ calls' = [calls EXCEPT !.reset = @ + 1]
    /\ UNCHANGED <<err, run, first, inputs, pipe, prepared, grid, scores, ci, cv,
                   best_params_dict, fs0, saved>>

\* The files a fit+evaluate cycle may leave: it writes the artifacts of any of
\* the tracked paths.
Fit(fsys, written) ==
    [f \in FileNames |-> IF f.sfx = "" /\ f.path \in written THEN TrainedFile(run) ELSE fsys[f]]
TrackedSet == {models_paths[i] : i \in 1..Len(models_paths)}

\* An evaluator that catches the exception, records the mean of the folds
\* done so far and lets the search go on.
FoldRaises_Partial(e) ==
    /\ err' = e
    /\ scores' = Append(scores, Mean(all_scores))
    /\ ci' = ci + 1
    /\ pc' = "comb"
    /\ folds' = <<>> /\ fi' = 1 /\ all_scores' = <<>>

\* An evaluator that takes 0 for a score it does not find and goes on to the
\* mean.
FoldRaises_Default(e) ==
    IF e = "KeyError: metric"
    THEN /\ err' = e
         /\ scores' = Append(scores, Mean(Append(all_scores, 0)))
         /\ ci' = ci + 1
         /\ pc' = "comb"
         /\ folds' = <<>> /\ fi' = 1 /\ all_scores' = <<>>
    ELSE /\ pc' = "aborted"
         /\ err' = e
         /\ UNCHANGED <<scores, ci, cv>>

\* Line 85 or 86 (104 or 105) raises e: nothing catches it, neither in the
\* evaluator nor in main(), and the run ends.
FoldRaises(e) ==
    /\ pc' = "aborted"
    /\ err' = e
    /\ UNCHANGED <<scores, ci, cv>>

\* Lines 85-86 and 104-105, and the return of the mean after the last fold:
\* train_evaluate_model_from_config raises, or returns metrics without the
\* target metric, or returns a score of the set S; W is the set of the sets of
\* tracked paths it may write.
Train(S, W) ==
    /\ pc = "train"
    /\ \E written \in W :
        /\ fs' = Fit(fs, written)
        /\ \/ FoldRaises("EvaluationError")
           \/ FoldRaises("KeyError: metric")
           \/ \E s \in S :
                /\ err' = err
                /\ IF fi = Len(folds)
                   THEN \* the mean is returned and appended; the locals are gone
                        /\ scores' = Append(scores, Mean(Append(all_scores, s)))
                        /\ ci' = ci + 1
                        /\ pc' = "comb"
                        /\ folds' = <<>> /\ fi' = 1 /\ all_scores' = <<>>
                   ELSE /\ all_scores' = Append(all_scores, s)
                        /\ fi' = fi + 1
                        /\ pc' = "fold"
                        /\ UNCHANGED <<scores, ci, folds>>
    /\ calls' = [calls EXCEPT !.fit = @ + 1,
                              \* score['valid'][target_metric] is not reached
                              \* when the evaluation itself raises
                              !.metric = IF err' = "EvaluationError" THEN @ ELSE target_metric]
    /\ UNCHANGED <<run, first, inputs, pipe, prepared, grid, best_params_dict, fs0, saved>>

\* Lines 166-167: after the last combination.  np.argmax of an empty list
\* raises.
SelectBest ==
    /\ pc = "comb"
    /\ ci > Len(combinations)
    /\ IF scores = <<>>
       THEN /\ pc' = "aborted"
            /\ err' = "ValueError"
            /\ UNCHANGED best_params_dict
       ELSE /\ best_params_dict' = get_best_params(combinations, scores, param_names, target_metric)
            /\ pc' = "restore"
            /\ err' = err
    /\ UNCHANGED <<run, first, calls, inputs, pipe, prepared, grid, scores, ci, cv, fs, fs0, saved>>

\* Lines 172-173: delete_saved_model, then restore_saved_models, whose
\* os.rename may raise as in Backup.
Restore ==
    /\ pc = "restore"
    /\ LET deleted == delete_saved_model(fs, models_paths)
       IN  \/ /\ fs' = restore_saved_models(deleted, models_paths)
              /\ pc' = "commit"
              /\ err' = err
           \/ \E j \in 1..Len(models_paths) :
                LET before == restore_saved_models(deleted, SubSeq(models_paths, 1, j - 1))
                IN  /\ IsFile(before, FileName(models_paths[j], BACKUP_SUFFIX_FILENAME))
                    /\ fs' = before
                    /\ pc' = "aborted"
                    /\ err' = "OSError"
    /\ UNCHANGED <<run, first, calls, inputs, pipe, prepared, grid, scores, ci, cv, best_params_dict,
                   fs0, saved>>

\* Lines 176-179 from position i (1-based) of best_params_dict.keys() on: the
\* best value is written and the range key popped; r = [pipe, ok], ok false
\* once a pop has raised KeyError.
RECURSIVE CommitFrom(_, _, _, _, _)
CommitFrom(r, best, items, metric, i) ==
    IF i > Len(best) \/ ~r.ok THEN r
    ELSE LET param_name == best[i].k
             stage == items[i] + 1
             set == [r.pipe EXCEPT ![stage] = DictSet(@, param_name, best[i].v)]
             range_key == param_name \o <<PARAM_RANGE_SUFFIX_NAME>>
         IN  IF param_name = metric
             THEN CommitFrom(r, best, items, metric, i + 1)
             ELSE IF HasKey(set[stage], range_key)
                  THEN CommitFrom([pipe |-> [set EXCEPT ![stage] = DictPop(@, range_key)],
                                   ok |-> TRUE], best, items, metric, i + 1)
                  ELSE [pipe |-> set, ok |-> FALSE]

Commit ==
    /\ pc = "commit"
    /\ LET r == CommitFrom([pipe |-> pipe, ok |-> TRUE], best_params_dict,
                           chainer_items, target_metric, 1)
       IN  /\ pipe' = r.pipe
           /\ IF r.ok
              THEN pc' = "save" /\ err' = err
              ELSE pc' = "aborted" /\ err' = "KeyError: range"
    /\ UNCHANGED <<run, first, calls, inputs, prepared, grid, scores, ci, cv, best_params_dict,
                   fs, fs0, saved>>

\* A save that returns without having written the file.
Save_Lost ==
    /\ pc = "save"
    /\ pc' = "done"
    /\ UNCHANGED <<err, run, first, calls, inputs, pipe, prepared, grid, scores, ci, cv,
                   best_params_dict, fs, fs0, saved>>

\* Lines 180-182: save_json(config_best_model, best_model_filename).
Save ==
    /\ pc = "save"
    /\ saved' = <<[name |-> best_model_filename(find_config(args.config_path)),
                    pipe |-> pipe, metrics |-> config_json.metrics]>>
    /\ pc' = "done"
    /\ UNCHANGED <<err, run, first, calls, inputs, pipe, prepared, grid, scores, ci, cv,
                   best_params_dict, fs, fs0>>

Terminated == pc \in {"done", "aborted"}

\* The user runs main() again with the same command line over the files the
\* run before has left.
Rerun ==
    /\ Terminated
    /\ run < MaxRuns
    /\ run' = run + 1
    /\ fs0' = fs
    /\ pipe' = config_json.pipe
    /\ pc' = "main" /\ err' = ""
    /\ target_metric' = <<>>
    /\ param_values' = <<>> /\ chainer_items' = <<>> /\ models_paths' = <<>>
    /\ combinations' = <<>> /\ param_names' = <<>> /\ scores' = <<>> /\ ci' = 1
    /\ folds' = <<>> /\ fi' = 1 /\ all_scores' = <<>>
    /\ best_params_dict' = <<>>
    /\ saved' = <<>>
    /\ calls' = NoCalls
    /\ first' = IF pc = "done"
                THEN <<[combinations |-> combinations, scores |-> scores,
                        best |-> best_params_dict]>>
                ELSE <<>>
    /\ UNCHANGED <<inputs, fs>>

\* One run of main() with an artifact at every path; the evaluation reports
\* any score and writes every tracked artifact.
Init == InitWith({[f \in FileNames |-> IF f.sfx = "" THEN UserFile ELSE NoFile]})

Next ==
    \/ Prepare \/ Backup \/ StartSearch \/ NextComb \/ ResetFold
    \/ Train(Scores, {TrackedSet})
    \/ SelectBest \/ Restore \/ Commit \/ Save

Spec == Init /\ [][Next]_vars

\* One run of main() that goes on: main() is sequential code without a wait,
\* so a step that can be taken is taken, and a fit+evaluate call that has
\* started returns or raises.  What a fold scores decides nothing about the
\* run going on: every fold reports the same score.
NextLive ==
    \/ Prepare \/ Backup \/ StartSearch \/ NextComb \/ ResetFold
    \/ Train({0}, {TrackedSet})
    \/ SelectBest \/ Restore \/ Commit \/ Save
EveryCallReturns == WF_vars(Train({0}, {TrackedSet}))
Sequential ==
    WF_vars(Prepare \/ Backup \/ StartSearch \/ NextComb \/ ResetFold
                \/ SelectBest \/ Restore \/ Commit \/ Save)
SpecLive == Init /\ [][NextLive]_vars /\ Sequential /\ EveryCallReturns

\* One run of main() of a grid search over one axis by leave-one-out, for
\* every config_path of ConfigPaths: files with and without '.json' in
\* their name, a name found under configs/, and a name that is no file.
ConfigPaths == ConfigFilesOnDisk \cup {<<"intents">>, <<"missing">>}
InitPaths ==
    /\ config_json = Config(<< Trainable("in_y", "m1", <<Entry(RangeKey("a"), ListVal(<<1, 2>>))>>) >>)
    /\ args \in [folds : {[kind |-> "loo", n |-> 0]}, search_type : {"grid"},
                  config_path : ConfigPaths]
    /\ data = Dataset(2, 1)
    /\ fs = [f \in FileNames |-> IF f.sfx = "" THEN UserFile ELSE NoFile]
    /\ fs0 = fs
    /\ run = 1
    /\ pipe = config_json.pipe
    /\ saved = <<>>
    /\ source = NoSource
    /\ first = <<>>
    /\ calls = NoCalls
    /\ FreshLocals
SpecPaths == InitPaths /\ [][NextLive]_vars

\* Several runs of main() over the same files, from any files of the user's;
\* the evaluation writes any of the tracked artifacts.  The score a fold
\* reports decides nothing about the files: every fold reports the same one.
InitRuns == InitWith(UserFileSystems)

NextRuns ==
    \/ Prepare \/ Backup \/ StartSearch \/ NextComb \/ ResetFold
    \/ Train({0}, SUBSET TrackedSet)
    \/ SelectBest \/ Restore \/ Commit \/ Save \/ Rerun

SpecRuns == InitRuns /\ [][NextRuns]_vars

\* The items of a dataset, when they may repeat.
Items == {"x", "y", "z"}
\* read_data_by_config: the items of s, the larger half in 'train', the rest
\* in 'valid'.
SplitDataset(s) ==
    [train |-> SubSeq(s, 1, (Len(s) + 1) \div 2),
     valid |-> SubSeq(s, ((Len(s) + 1) \div 2) + 1, Len(s)),
     test |-> <<>>]
ItemDatasets == UNION {{SplitDataset(s) : s \in [1..m -> Items]} : m \in 0..MaxItems}
\* The same with no test partition or with one of one item of its own.
TestedDatasets == {[d EXCEPT !.test = t] : d \in ItemDatasets, t \in {<<>>, <<"t">>}}

\* One run of main() of a grid search over one axis, on any dataset of up to
\* MaxItems items that may repeat, by leave-one-out or by any number of folds;
\* every fold reports the same score.
InitFolds ==
    /\ config_json = Config(<< Trainable("in_y", "m1", <<Entry(RangeKey("a"), ListVal(<<1, 2, 3>>))>>) >>)
    /\ args \in [folds : {[kind |-> "loo", n |-> 0]}
                            \cup {[kind |-> "digits", n |-> k] : k \in 1..(MaxItems + 1)},
                  search_type : {"grid"}, config_path : {DefaultConfigPath}]
    /\ data \in TestedDatasets
    /\ fs = [f \in FileNames |-> IF f.sfx = "" THEN UserFile ELSE NoFile]
    /\ fs0 = fs
    /\ run = 1
    /\ pipe = config_json.pipe
    /\ saved = <<>>
    /\ source = NoSource
    /\ first = <<>>
    /\ calls = NoCalls
    /\ FreshLocals

NextFolds ==
    \/ Prepare \/ Backup \/ StartSearch \/ NextComb \/ ResetFold
    \/ Train({0}, {TrackedSet})
    \/ SelectBest \/ Restore \/ Commit \/ Save

SpecFolds == InitFolds /\ [][NextFolds]_vars

\* The configuration, the data and the sources of the runs that are compared:
\* one axis of two candidates, two items.
SeededConfig ==
    Config(<< Trainable("in_y", "m1", <<Entry(RangeKey("a"), ListVal(<<1, 2>>))>>) >>)
SeededData == Dataset(2, 1)
\* The configurations and the splits the collaborator may be called with.
SeededPipes ==
    {ApplyComb(SeededConfig.pipe, <<c>>, <<0>>, <<<<"a">>>>, 1) : c \in {1, 2}}
SeededSplits ==
    LET all_data == SeededData.train \o SeededData.valid
    IN  {LooFolds(all_data)[i] : i \in 1..2}
            \cup UNION {{KFolds(all_data, 2, perm)[f] : f \in 1..2} : perm \in Shuffles(2)}
\* A seeded random source gives the same shuffle to the same call of every
\* run; a deterministic collaborator gives the same score to the same
\* configuration and split.
Sources ==
    [shuffles : [1..2 -> Shuffles(2)],
     score : [SeededPipes \X SeededSplits -> 0..MaxMarks]]

\* A random source that goes on in a run from where the run before stopped.
DrawShuffle_Unseeded(src, call) == src.shuffles[((call + run) % 2) + 1]

\* KFold(shuffle=True) without random_state draws from the global random
\* source: the shuffle of the call-th split of a run seeded the same way.
DrawShuffle(src, call) == src.shuffles[call]
\* The shuffle that NextComb takes is the one the source gives.
SeededShuffle ==
    (args.folds.kind = "digits" /\ pc' = "fold") =>
        folds' = KFolds(data.train \o data.valid, args.folds.n, DrawShuffle(source, ci))
\* The score the collaborator gives to the running fold.
SeededScore == source.score[<<pipe, folds[fi]>>]

InitSeeded ==
    /\ config_json = SeededConfig
    /\ args \in [folds : {[kind |-> "loo", n |-> 0], [kind |-> "digits", n |-> 2]},
                  search_type : {"grid"}, config_path : {DefaultConfigPath}]
    /\ data = SeededData
    /\ fs = [f \in FileNames |-> IF f.sfx = "" THEN UserFile ELSE NoFile]
    /\ fs0 = fs
    /\ run = 1
    /\ pipe = config_json.pipe
    /\ saved = <<>>
    /\ source \in Sources
    /\ first = <<>>
    /\ calls = NoCalls
    /\ FreshLocals

\* Runs of main() one after the other from the same configuration, data and
\* arguments, with the same seed and a deterministic collaborator.
NextSeeded ==
    \/ Prepare \/ Backup \/ StartSearch
    \/ NextComb /\ SeededShuffle
    \/ ResetFold
    \/ Train({SeededScore}, {TrackedSet})
    \/ SelectBest \/ Restore \/ Commit \/ Save \/ Rerun

SpecSeeded == InitSeeded /\ [][NextSeeded]_vars


\* ------------------------------------------------------------ the claims
Orig(p) == FileName(p, "")
Backuped(p) == FileName(p, BACKUP_SUFFIX_FILENAME)
\* The artifact p held when the run started is now at its backup name and not
\* at p.
LeftBackuped(p) ==
    IsFile(fs0, Orig(p)) /\ fs[Backuped(p)] = fs0[Orig(p)] /\ fs[Orig(p)] # fs0[Orig(p)]
\* The artifact p held when the run started is at p.
InPlace(p) == IsFile(fs0, Orig(p)) /\ fs[Orig(p)] = fs0[Orig(p)]
NoBackupAtStart == \A p \in PathNames : ~IsFile(fs0, Backuped(p))

\* C1: once the backup has been made, every run ends (normally or by an
\* exception of the search) with the restore done: no tracked artifact that
\* existed at the start is left only under its '_backuped' name.
C1_RestoreOnEveryExit ==
    (Terminated /\ err # "OSError") => \A p \in TrackedSet : ~LeftBackuped(p)

\* C2: in a run that starts with no '_backuped' file, the content every
\* tracked path held at the start is, in every state of the run, at the path
\* or at its backup name.
C2_OriginalNeverLost ==
    NoBackupAtStart =>
        \A p \in TrackedSet :
            IsFile(fs0, Orig(p)) =>
                fs[Orig(p)] = fs0[Orig(p)] \/ fs[Backuped(p)] = fs0[Orig(p)]
\* A run aborted by the evaluation after a fold has trained: the path holds
\* the fold's artifact, the backup name the original.
C2_Witness ==
    /\ pc = "aborted" /\ err = "EvaluationError" /\ NoBackupAtStart
    /\ \E p \in TrackedSet :
        /\ IsFile(fs0, Orig(p))
        /\ fs[Orig(p)] = TrainedFile(run)
        /\ fs[Backuped(p)] = fs0[Orig(p)]

\* C3: when train_evaluate_model_from_config is called, no tracked path holds
\* a file.
C3_CleanSlate ==
    pc = "train" => \A p \in TrackedSet : ~IsFile(fs, Orig(p))
\* The second fold of a second run over a path that held an artifact.
C3_Witness ==
    /\ pc = "train" /\ fi = 2 /\ run = 2
    /\ \E p \in TrackedSet : IsFile(fs0, Orig(p))

\* backup([p]); delete the file at p; restore([p])
RoundTrip(fsys, p) ==
    restore_saved_models(delete_saved_model(backup_saved_models(fsys, <<p>>), <<p>>), <<p>>)
\* backup([p]); restore([p])
BackupRestore(fsys, p) == restore_saved_models(backup_saved_models(fsys, <<p>>), <<p>>)

\* C4 as stated: for any path, the round trip gives the path its content
\* back, and for a path holding no file backup then restore leave it absent
\* and create no file.
C4_RoundTripAnyPath ==
    \A p \in PathNames :
        /\ IsFile(fs, Orig(p)) => RoundTrip(fs, p)[Orig(p)] = fs[Orig(p)]
        /\ ~IsFile(fs, Orig(p)) =>
                /\ ~IsFile(BackupRestore(fs, p), Orig(p))
                /\ \A f \in FileNames : IsFile(BackupRestore(fs, p), f) => IsFile(fs, f)
\* C4 as amended: the second half for a path that holds no file and has no
\* file at its backup name.
C4_RoundTrip ==
    \A p \in PathNames :
        /\ IsFile(fs, Orig(p)) => RoundTrip(fs, p)[Orig(p)] = fs[Orig(p)]
        /\ (~IsFile(fs, Orig(p)) /\ ~IsFile(fs, Backuped(p))) =>
                /\ ~IsFile(BackupRestore(fs, p), Orig(p))
                /\ \A f \in FileNames : IsFile(BackupRestore(fs, p), f) => IsFile(fs, f)
\* Both cases at once, in the middle of a run: a path holding a fold's
\* artifact, which the backup moves and the restore brings back, and a path
\* with neither file nor backup.
C4_Witness ==
    \E p, q \in PathNames :
        /\ fs[Orig(p)] = TrainedFile(run)
        /\ backup_saved_models(fs, <<p>>)[Backuped(p)] = TrainedFile(run)
        /\ ~IsFile(backup_saved_models(fs, <<p>>), Orig(p))
        /\ RoundTrip(fs, p)[Orig(p)] = fs[Orig(p)]
        /\ ~IsFile(fs, Orig(q)) /\ ~IsFile(fs, Backuped(q))
        /\ BackupRestore(fs, q) = fs

\* C5 as stated: after a run that completes normally every tracked path holds
\* a file iff it held one at the start, with the content it had then, and no
\* '_backuped' file remains.
C5_RestoredAfterAnyNormalRun ==
    pc = "done" =>
        \A p \in TrackedSet :
            /\ IsFile(fs, Orig(p)) <=> IsFile(fs0, Orig(p))
            /\ fs[Orig(p)] = fs0[Orig(p)]
            /\ ~IsFile(fs, Backuped(p))
\* The restore step of main() for one path: a backup replaces whatever the
\* path holds and is gone, a path without backup is left absent.
RestoredFrom(before, after, p) ==
    IF IsFile(before, Backuped(p))
    THEN after[Orig(p)] = before[Backuped(p)] /\ ~IsFile(after, Backuped(p))
    ELSE ~IsFile(after, Orig(p)) /\ ~IsFile(after, Backuped(p))
\* C5 as amended: the restore step does that for every tracked path, and a
\* run that started with no '_backuped' file and completes normally leaves
\* every tracked path as it was at the start, and no '_backuped' file.
C5_RestoredAfterNormalRun ==
    /\ [][(pc = "restore" /\ pc' = "commit") =>
            \A p \in TrackedSet : RestoredFrom(fs, fs', p)]_vars
    /\ [](  (pc = "done" /\ NoBackupAtStart) =>
            \A p \in TrackedSet :
                /\ IsFile(fs, Orig(p)) <=> IsFile(fs0, Orig(p))
                /\ fs[Orig(p)] = fs0[Orig(p)]
                /\ ~IsFile(fs, Backuped(p)))
\* A completed run over one path that held an artifact and one that did not,
\* folds having been evaluated.
C5_Witness ==
    /\ pc = "done" /\ NoBackupAtStart
    /\ Len(scores) > 0 /\ ~IsNan(scores[1])
    /\ \E p, q \in TrackedSet :
        /\ IsFile(fs0, Orig(p)) /\ fs[Orig(p)] = fs0[Orig(p)]
        /\ ~IsFile(fs0, Orig(q)) /\ ~IsFile(fs, Orig(q))

\* C6: a run aborted by a configuration error after the backup ends with the
\* artifacts that existed at the start back at their paths.
ConfigurationErrors ==
    {"NotImplementedError: search", "NotImplementedError: CV", "ValueError", "KeyError: metric"}
C6_RestoreOnConfigurationError ==
    (pc = "aborted" /\ err \in ConfigurationErrors) =>
        \A p \in TrackedSet : IsFile(fs0, Orig(p)) => InPlace(p)

\* C7: a run ended by a failing os.rename does not leave one tracked artifact
\* under its '_backuped' name and another at its own path.
C7_NotHalfBackedUp ==
    (pc = "aborted" /\ err = "OSError") =>
        ~\E p, q \in TrackedSet : LeftBackuped(p) /\ ~IsFile(fs, Orig(p)) /\ InPlace(q)


\* The axes the configuration declares: one per range key, in the order of
\* the stages and of the keys of a stage, with the stage's index (0-based),
\* the parameter name and the candidates.
RECURSIVE AxesOfStage(_, _, _)
AxesOfStage(elem, i, j) ==
    IF j > Len(elem) THEN <<>>
    ELSE (IF EndsWith(elem[j].k, PARAM_RANGE_SUFFIX_NAME)
          THEN <<[stage |-> i,
                  name |-> PartitionHead(elem[j].k, PARAM_RANGE_SUFFIX_NAME),
                  values |-> elem[j].v.l]>>
          ELSE <<>>) \o AxesOfStage(elem, i, j + 1)
RECURSIVE AxesFrom(_, _)
AxesFrom(pipeline, n) ==
    IF n > Len(pipeline) THEN <<>>
    ELSE AxesOfStage(pipeline[n], n - 1, 1) \o AxesFrom(pipeline, n + 1)
DeclaredAxes == AxesFrom(config_json.pipe, 1)
RECURSIVE SizeProduct(_)
SizeProduct(axes) ==
    IF axes = <<>> THEN 1 ELSE Len(Head(axes).values) * SizeProduct(Tail(axes))

\* C8: a combination that has been applied has one value per declared axis,
\* the i-th value stands in the stage that declared the i-th range key under
\* its parameter name, and a stage that declares no axis of that name has
\* what the configuration gave it.
C8_AxisLocation ==
    pc \in {"fold", "train"} =>
        LET comb == combinations[ci]
        IN  /\ Len(comb) = Len(DeclaredAxes)
            /\ Len(chainer_items) = Len(param_names)
            /\ \A i \in 1..Len(DeclaredAxes) :
                LET ax == DeclaredAxes[i]
                IN  /\ HasKey(pipe[ax.stage + 1], ax.name)
                    /\ DictGet(pipe[ax.stage + 1], ax.name) = ScalarVal(comb[i])
                    /\ \A n \in 1..Len(pipe) :
                        (~\E k \in 1..Len(DeclaredAxes) :
                            DeclaredAxes[k].stage = n - 1 /\ DeclaredAxes[k].name = ax.name)
                        => /\ HasKey(pipe[n], ax.name) <=> HasKey(config_json.pipe[n], ax.name)
                           /\ HasKey(pipe[n], ax.name) =>
                                DictGet(pipe[n], ax.name) = DictGet(config_json.pipe[n], ax.name)

\* C9: when the best combination has been selected in a configuration with
\* at least one axis, the scores are as many as the product of the sizes of
\* the declared axes, one per combination, no combination twice.
C9_ExhaustiveGrid ==
    (pc \in {"restore", "commit", "save", "done"} /\ Len(DeclaredAxes) >= 1) =>
        /\ Len(scores) = SizeProduct(DeclaredAxes)
        /\ Len(combinations) = SizeProduct(DeclaredAxes)
        /\ \A i, j \in 1..Len(combinations) : i # j => combinations[i] # combinations[j]

\* x > y on scores, false when either is nan.
Greater(x, y) == ~IsNan(x) /\ ~IsNan(y) /\ x.n * y.d > y.n * x.d
\* j is the first position whose score no score exceeds.
FirstMaximum(j) ==
    /\ \A k \in 1..Len(scores) : ~Greater(scores[k], scores[j])
    /\ \A k \in 1..(j - 1) : Greater(scores[j], scores[k])

\* C10: the best parameters are those of the first combination among the ones
\* with the maximal score, with that score under the target metric.
C10_FirstMaximum ==
    pc \in {"restore", "commit", "save", "done"} =>
        \E j \in 1..Len(scores) :
            /\ FirstMaximum(j)
            /\ Len(best_params_dict) = Len(param_names) + 1
            /\ \A i \in 1..Len(param_names) :
                /\ HasKey(best_params_dict, param_names[i])
                /\ DictGet(best_params_dict, param_names[i]) = ScalarVal(combinations[j][i])
            /\ HasKey(best_params_dict, target_metric)
            /\ DictGet(best_params_dict, target_metric) = scores[j]
\* Three combinations, the first and the third share the maximum, the second
\* is below: the first is returned.
C10_Witness ==
    /\ pc = "restore" /\ Len(scores) = 3
    /\ scores[1] = scores[3] /\ Greater(scores[1], scores[2])
    /\ DictGet(best_params_dict, param_names[1]) = ScalarVal(combinations[1][1])

\* all_data of the fold evaluators: data['train'] + data['valid'].
AllData == data.train \o data.valid
\* The number of positions of s holding v.
Count(s, v) == Cardinality({i \in 1..Len(s) : s[i] = v})
\* s and t hold the same items as many times each.
BagEqual(s, t) ==
    \A v \in {s[i] : i \in 1..Len(s)} \cup {t[i] : i \in 1..Len(t)} : Count(s, v) = Count(t, v)
Evaluating == pc \in {"fold", "train"}

\* C11: leave-one-out over the m items of all_data runs m cycles, one after
\* the other from the first, none twice; in cycle i the validation set is
\* [all_data[i]], the training set is all_data without position i in the
\* order of all_data, the test set is empty, and the training and the
\* validation set together hold the items of all_data as many times each.
C11_LeaveOneOut ==
    /\ [](  (args.folds.kind = "loo" /\ Evaluating) =>
            LET m == Len(AllData)
                split == folds[fi]
            IN  /\ Len(folds) = m /\ fi \in 1..m /\ Len(all_scores) = fi - 1
                /\ split.valid = <<AllData[fi]>>
                /\ Len(split.train) = m - 1
                /\ \A j \in 1..(m - 1) :
                        split.train[j] = IF j < fi THEN AllData[j] ELSE AllData[j + 1]
                /\ split.test = <<>>
                /\ BagEqual(split.train \o split.valid, AllData))
    /\ [][args.folds.kind = "loo" =>
            /\ (pc = "comb" /\ pc' = "fold") => fi' = 1
            /\ (pc = "train" /\ pc' = "fold") => fi' = fi + 1
            /\ (pc = "train" /\ pc' = "comb") => fi = Len(AllData)
            /\ (pc = "comb" /\ pc' = "comb") => Len(AllData) = 0]_vars
\* The second of three cycles over a dataset whose second item repeats the
\* first: the first and the third item are the training set, in that order.
C11_Witness ==
    /\ args.folds.kind = "loo" /\ pc = "train" /\ fi = 2 /\ Len(AllData) = 3
    /\ AllData[1] = AllData[2] /\ AllData[1] # AllData[3]
    /\ folds[fi].valid = <<AllData[2]>>
    /\ folds[fi].train = <<AllData[1], AllData[3]>>

\* The splits are those of an assignment g of every position of all_data to
\* one of the k folds: fold f validates the items at the positions assigned to
\* it and trains on the items at the other positions, both in the order of
\* all_data, and tests on nothing.
IsPartitionInto(splits, k) ==
    LET m == Len(AllData)
    IN  /\ Len(splits) = k
        /\ \E g \in [1..m -> 1..k] :
              \A f \in 1..k :
                LET mine == {i \in 1..m : g[i] = f}
                IN  /\ splits[f].valid = TakeIdx(AllData, mine, 1)
                    /\ splits[f].train = TakeIdx(AllData, (1..m) \ mine, 1)
                    /\ splits[f].test = <<>>
\* The items of the validation sets of all the splits, one after the other.
RECURSIVE ValidOfAll(_)
ValidOfAll(splits) ==
    IF splits = <<>> THEN <<>> ELSE Head(splits).valid \o ValidOfAll(Tail(splits))
ItemsOf(s) == {s[i] : i \in 1..Len(s)}
\* What the evaluation by k folds does once calc_cvfolds_score has been
\* called: the k splits partition all_data, every item is validated once, and
\* the cycles go through the k splits one after the other.
KFoldSplits ==
    (args.folds.kind = "digits" /\ Evaluating) =>
        /\ fi \in 1..args.folds.n /\ Len(all_scores) = fi - 1
        /\ fi = 1 => IsPartitionInto(folds, args.folds.n)
        /\ BagEqual(ValidOfAll(folds), AllData)
        /\ \A f \in 1..Len(folds) : BagEqual(folds[f].train \o folds[f].valid, AllData)
        /\ (Cardinality(ItemsOf(AllData)) = Len(AllData)) =>
                /\ \A f, h \in 1..Len(folds) :
                        f # h => ItemsOf(folds[f].valid) \cap ItemsOf(folds[h].valid) = {}
                /\ UNION {ItemsOf(folds[f].valid) : f \in 1..Len(folds)} = ItemsOf(AllData)
                /\ \A f \in 1..Len(folds) :
                        ItemsOf(folds[f].train) = ItemsOf(AllData) \ ItemsOf(folds[f].valid)
KFoldCycles ==
    args.folds.kind = "digits" =>
        /\ (pc = "comb" /\ pc' = "fold") => fi' = 1 /\ Len(folds') = args.folds.n
        /\ (pc = "train" /\ pc' = "fold") => fi' = fi + 1 /\ folds' = folds
        /\ (pc = "train" /\ pc' = "comb") => fi = args.folds.n
\* calc_cvfolds_score is called for a combination.
CallsKFold == pc = "comb" /\ ci <= Len(combinations) /\ args.folds.kind = "digits"

\* C12 as stated: for any k >= 2 the evaluation by k folds runs k cycles over
\* splits whose validation sets are pairwise disjoint and cover all_data,
\* each training on the items outside its validation set and testing on
\* nothing.
C12_KFoldAnyK ==
    /\ []KFoldSplits
    /\ [][KFoldCycles]_vars
    /\ [][(CallsKFold /\ args.folds.n >= 2) => pc' = "fold"]_vars
\* C12 as amended: the same for 2 <= k <= m.
C12_KFold ==
    /\ []KFoldSplits
    /\ [][KFoldCycles]_vars
    /\ [][(CallsKFold /\ args.folds.n >= 2 /\ args.folds.n <= Len(AllData)) => pc' = "fold"]_vars
\* The second of two cycles over three different items: two items were
\* validated in the first, the third is now, the training set is the other
\* two.
C12_Witness ==
    /\ args.folds.kind = "digits" /\ args.folds.n = 2 /\ pc = "train" /\ fi = 2
    /\ Len(AllData) = 3 /\ Cardinality(ItemsOf(AllData)) = 3
    /\ Len(folds[1].valid) = 2 /\ Len(folds[2].valid) = 1
    /\ folds[2].train = folds[1].valid

\* The stage st of the written configuration against the stage orig read from
\* disk: every range key of orig is gone and its parameter holds the best
\* value, one of the key's candidates; every other key of orig is kept with
\* its value; nothing else is there.
CommittedStage(st, orig) ==
    LET IsRange(key) == EndsWith(key, PARAM_RANGE_SUFFIX_NAME)
        NameOf(key) == PartitionHead(key, PARAM_RANGE_SUFFIX_NAME)
        AxisNames == {NameOf(orig[j].k) : j \in {h \in 1..Len(orig) : IsRange(orig[h].k)}}
    IN  /\ \A j \in 1..Len(orig) :
              LET key == orig[j].k
              IN  IF IsRange(key)
                  THEN /\ ~HasKey(st, key)
                       /\ HasKey(st, NameOf(key))
                       /\ HasKey(best_params_dict, NameOf(key))
                       /\ DictGet(st, NameOf(key)) = DictGet(best_params_dict, NameOf(key))
                       /\ \E c \in 1..Len(orig[j].v.l) :
                            DictGet(st, NameOf(key)) = ScalarVal(orig[j].v.l[c])
                  ELSE key \notin AxisNames =>
                            HasKey(st, key) /\ DictGet(st, key) = orig[j].v
        /\ \A j \in 1..Len(st) : HasKey(orig, st[j].k) \/ st[j].k \in AxisNames

\* C13: the best configuration that main() writes has, in every stage, the
\* best value in place of every range key the stage declared, and every
\* other key as read from disk.
C13_CommittedConfig ==
    saved # <<>> =>
        /\ Len(saved[1].pipe) = Len(config_json.pipe)
        /\ \A n \in 1..Len(config_json.pipe) :
                CommittedStage(saved[1].pipe[n], config_json.pipe[n])
        /\ saved[1].metrics = config_json.metrics

\* config_init['chainer']['pipe'] is the one pipe that config and
\* config_best_model share with it.  It holds every key of the configuration
\* as read from disk, with its value.
KeepsWhatWasRead ==
    /\ Len(pipe) = Len(config_json.pipe)
    /\ \A n \in 1..Len(config_json.pipe) :
          \A j \in 1..Len(config_json.pipe[n]) :
            /\ HasKey(pipe[n], config_json.pipe[n][j].k)
            /\ DictGet(pipe[n], config_json.pipe[n][j].k) = config_json.pipe[n][j].v

\* C14: after the commit step config_init still has every range key and
\* every value it had when it was read.
C14_CommitKeepsOriginal ==
    pc \in {"save", "done"} => KeepsWhatWasRead

\* C15: while the grid is searched, and until the commit, config_init is as
\* it was read: no stage holds a candidate value written for a combination.
C15_IterationKeepsBase ==
    pc \in {"comb", "fold", "train", "restore", "commit"} => pipe = config_json.pipe

\* When restore_saved_models is about to run, a tracked path has a backup
\* file iff it held a file when backup_saved_models ran (the start of the
\* run: nothing touches the files before the backup).
BackupIffExisted ==
    pc = "restore" =>
        \A p \in TrackedSet : IsFile(fs, Backuped(p)) <=> IsFile(fs0, Orig(p))
\* The restore step renames nothing for a tracked path that held no file at
\* the backup: the path ends without a file, its backup name as it was.
RestoreRenamesNothingNew ==
    (pc = "restore" /\ pc' = "commit") =>
        \A p \in TrackedSet :
            ~IsFile(fs0, Orig(p)) =>
                ~IsFile(fs', Orig(p)) /\ fs'[Backuped(p)] = fs[Backuped(p)]

\* C16 as stated, for any run.
C16_BackupIffExistedAnyRun ==
    /\ []BackupIffExisted
    /\ [][RestoreRenamesNothingNew]_vars
\* C16 as amended: for a run that started with no '_backuped' file at any
\* path.
C16_BackupIffExisted ==
    /\ [](NoBackupAtStart => BackupIffExisted)
    /\ [][NoBackupAtStart => RestoreRenamesNothingNew]_vars
\* The restore has run over two tracked paths, folds having trained both:
\* the one that held an artifact has it back, the other holds nothing.
C16_Witness ==
    /\ pc = "commit" /\ NoBackupAtStart
    /\ Len(scores) > 0 /\ ~IsNan(scores[1])
    /\ \E p, q \in TrackedSet :
        /\ InPlace(p) /\ ~IsFile(fs, Backuped(p))
        /\ ~IsFile(fs0, Orig(q)) /\ ~IsFile(fs, Orig(q)) /\ ~IsFile(fs, Backuped(q))

\* C17: with a configuration that declares no axis no fit+evaluate cycle is
\* run, no score is recorded and no best configuration is written.
C17_NoAxisRejected ==
    Len(DeclaredAxes) = 0 => (pc # "train" /\ scores = <<>> /\ saved = <<>>)

\* C18: an error raised by a fold's fit+evaluate cycle ends the run there:
\* the step that raises it records nothing, the run is aborted with the
\* scores of the combinations evaluated before and none for the failing one,
\* no best combination and no file, and nothing runs after it.
C18_FoldErrorAborts ==
    /\ [][(pc = "train" /\ err' = "EvaluationError") =>
            /\ pc' = "aborted"
            /\ scores' = scores /\ ci' = ci /\ fi' = fi /\ all_scores' = all_scores]_vars
    /\ [](  err = "EvaluationError" =>
            /\ pc = "aborted"
            /\ Len(scores) = ci - 1
            /\ best_params_dict = <<>>
            /\ saved = <<>>)
    /\ [][err # "EvaluationError"]_vars
\* The second fold of the second of three combinations has raised: one score
\* is recorded, one fold's score is lost, one combination was never tried.
C18_Witness ==
    /\ pc = "aborted" /\ err = "EvaluationError"
    /\ ci = 2 /\ Len(combinations) = 3 /\ Len(scores) = 1
    /\ fi = 2 /\ Len(all_scores) = 1

\* C19: when the metrics of a fold lack the target metric the run is aborted
\* at that fold: all_scores holds the scores of the folds before it and
\* nothing for it, no mean is recorded for the combination, and the run goes
\* no further.
C19_MissingMetricAborts ==
    /\ [](  err = "KeyError: metric" =>
            /\ pc = "aborted"
            /\ fi \in 1..Len(folds)
            /\ Len(all_scores) = fi - 1
            /\ Len(scores) = ci - 1
            /\ ci <= Len(combinations)
            /\ saved = <<>>)
    /\ [][(pc = "train" /\ err' = "KeyError: metric") => UNCHANGED <<scores, ci, cv>>]_vars
    /\ [][err # "KeyError: metric"]_vars
\* The metric is missing in the second fold of the first combination.
C19_Witness ==
    /\ pc = "aborted" /\ err = "KeyError: metric"
    /\ ci = 1 /\ scores = <<>> /\ fi = 2 /\ Len(all_scores) = 1

NotImplementedErrors == {"NotImplementedError: search", "NotImplementedError: CV"}
UnsupportedSearch == args.search_type # "grid"
UnsupportedFolds == args.folds.kind = "other"

\* C20: a run with a search type other than 'grid', or with a folds value
\* that is neither 'loo' nor digits, runs no fit+evaluate cycle, writes no
\* file, and, unless an os.rename of the backup fails first, ends by a
\* NotImplementedError, whatever the configuration declares.
C20_UnsupportedArguments ==
    (UnsupportedSearch \/ UnsupportedFolds) =>
        /\ pc # "train"
        /\ saved = <<>>
        /\ (Terminated /\ err # "OSError") =>
                /\ pc = "aborted"
                /\ err \in NotImplementedErrors
                /\ UnsupportedSearch => err = "NotImplementedError: search"

\* The splits of the combination being evaluated, from the inputs alone.
SplitsOfInputs ==
    IF args.folds.kind = "loo" THEN LooFolds(AllData)
    ELSE KFolds(AllData, args.folds.n, source.shuffles[ci])

PathLists == {<<>>} \cup {<<p>> : p \in PathNames} \cup {<<p, q>> : p, q \in PathNames}
\* On the file system fsys: each operation applied twice gives what it gives
\* applied once, and applied to a path without file (for the restore, without
\* backup file) it changes nothing.
IdempotentOn(fsys) ==
    /\ \A paths \in PathLists :
        LET deleted == delete_saved_model(fsys, paths)
            backed == backup_saved_models(fsys, paths)
            restored == restore_saved_models(fsys, paths)
        IN  /\ delete_saved_model(deleted, paths) = deleted
            /\ backup_saved_models(backed, paths) = backed
            /\ restore_saved_models(restored, paths) = restored
    /\ \A p \in PathNames :
        /\ ~IsFile(fsys, Orig(p)) =>
                /\ delete_saved_model(fsys, <<p>>) = fsys
                /\ backup_saved_models(fsys, <<p>>) = fsys
        /\ ~IsFile(fsys, Backuped(p)) => restore_saved_models(fsys, <<p>>) = fsys

\* C22: the three operations are idempotent and change nothing for a missing
\* file, on every file system a run goes through; and an os.rename fails in
\* the backup or the restore only for a path whose file to rename exists.
C22_Idempotent ==
    /\ []IdempotentOn(fs)
    /\ [][(pc = "backup" /\ err' = "OSError") =>
            \E p \in TrackedSet : IsFile(fs, Orig(p))]_vars
    /\ [][(pc = "restore" /\ err' = "OSError") =>
            \E p \in TrackedSet : IsFile(fs, Backuped(p))]_vars
\* A path with a fold's artifact and a backup, on which each operation does
\* something, and a path with neither.
C22_Witness ==
    \E p, q \in PathNames :
        /\ fs[Orig(p)] = TrainedFile(run) /\ IsFile(fs, Backuped(p))
        /\ delete_saved_model(fs, <<p>>) # fs
        /\ backup_saved_models(fs, <<p>>) # fs
        /\ restore_saved_models(fs, <<p>>) # fs
        /\ ~IsFile(fs, Orig(q)) /\ ~IsFile(fs, Backuped(q))

\* The c-th combination (1-based) of the Cartesian product of the axes in
\* their order, the last axis varying fastest: its i-th value is the
\* candidate of axis i at the i-th digit of c - 1 written in the mixed radix
\* of the sizes.
RECURSIVE SizeAfter(_, _)
SizeAfter(axes, i) ==
    IF i >= Len(axes) THEN 1 ELSE Len(axes[i + 1].values) * SizeAfter(axes, i + 1)
NthCombination(axes, c) ==
    [i \in 1..Len(axes) |->
        axes[i].values[(((c - 1) \div SizeAfter(axes, i)) % Len(axes[i].values)) + 1]]
GridMade == pc \in {"comb", "fold", "train", "restore", "commit", "save", "done"}
\* The combination at position c stands in the pipeline: every declared
\* axis holds its value.
Applied(pipeline, c) ==
    /\ Len(combinations[c]) = Len(DeclaredAxes)
    /\ \A i \in 1..Len(DeclaredAxes) :
            /\ HasKey(pipeline[DeclaredAxes[i].stage + 1], DeclaredAxes[i].name)
            /\ DictGet(pipeline[DeclaredAxes[i].stage + 1], DeclaredAxes[i].name)
                    = ScalarVal(combinations[c][i])

\* C23: the combinations are the Cartesian product of the declared axes in
\* extractor order, the last axis varying fastest; they are evaluated in
\* that order, and the i-th score is recorded while the i-th combination
\* stands in the pipe.
C23_ProductOrder ==
    /\ [](  GridMade =>
            /\ Len(combinations) = SizeProduct(DeclaredAxes)
            /\ \A c \in 1..Len(combinations) :
                    combinations[c] = NthCombination(DeclaredAxes, c)
            /\ ci \in 1..(Len(combinations) + 1)
            /\ Len(scores) = IF pc \in {"comb", "fold", "train"} THEN ci - 1
                             ELSE Len(combinations))
    /\ [][(GridMade /\ Len(scores') # Len(scores)) =>
            /\ scores' = Append(scores, scores'[Len(scores')])
            /\ ci' = ci + 1
            /\ Len(scores') = ci
            /\ Applied(pipe', ci)]_vars

\* No fold of the run has been reset or trained yet.
BeforeFirstFold ==
    \/ pc = "search"
    \/ pc \in {"comb", "fold"} /\ ci = 1 /\ fi = 1 /\ scores = <<>>

\* C24: a run backs the saved models up once, before its first reset and its
\* first fit+evaluate cycle: the backup step is taken from the preparation
\* of the run only and is left at once; until the first reset the files are
\* those of the start of the run with the backup applied; and no other
\* step than the backup and the restore changes a '_backuped' file.
C24_BackupOnceFirst ==
    /\ [][pc' = "backup" => (pc = "main" /\ run' = run)]_vars
    /\ [][pc' = "main" => run' = run + 1]_vars
    /\ [][pc = "backup" =>
            /\ pc' \in {"search", "aborted"}
            /\ pc' = "search" => fs' = backup_saved_models(fs, models_paths)]_vars
    /\ [](BeforeFirstFold => fs = backup_saved_models(fs0, models_paths))
    /\ [][(\E p \in PathNames : fs'[Backuped(p)] # fs[Backuped(p)]) =>
            pc \in {"backup", "restore"}]_vars
    /\ [](IF pc \in {"main", "backup"} THEN calls = NoCalls ELSE calls.backup = 1)
\* The first fold of a second run is about to be reset: the artifact of a
\* tracked path is at its backup name, the path holds nothing.
C24_Witness ==
    /\ run = 2 /\ pc = "fold" /\ ci = 1 /\ fi = 1
    /\ \E p \in TrackedSet :
        /\ IsFile(fs0, Orig(p)) /\ ~IsFile(fs0, Backuped(p))
        /\ fs[Backuped(p)] = fs0[Orig(p)] /\ ~IsFile(fs, Orig(p))

\* The folds of one combination: m for leave-one-out, k for k folds.
NumFolds == IF args.folds.kind = "loo" THEN Len(AllData) ELSE args.folds.n

\* C25: a cycle is in progress only between a fold's reset and its
\* fit+evaluate call, one at most; a fold is reset once, when the scores of
\* all the folds before it are recorded, then fitted and evaluated, then its
\* score is recorded; at the f-th fold of the c-th combination (c - 1) *
\* folds + f - 1 cycles are over; and when the search is over the resets are
\* as many as the fit+evaluate calls, combinations times folds.
C25_Sequential ==
    /\ [](calls.reset - calls.fit = IF pc = "train" THEN 1 ELSE 0)
    /\ [][calls'.reset # calls.reset =>
            /\ pc = "fold" /\ pc' = "train"
            /\ calls'.reset = calls.reset + 1
            /\ calls.fit = calls.reset
            /\ Len(all_scores) = fi - 1]_vars
    /\ [][calls'.fit # calls.fit =>
            /\ pc = "train"
            /\ calls'.fit = calls.fit + 1
            /\ err' = "" =>
                    \/ Len(all_scores') = Len(all_scores) + 1 /\ fi' = fi + 1 /\ pc' = "fold"
                    \/ Len(scores') = Len(scores) + 1 /\ ci' = ci + 1 /\ pc' = "comb"]_vars
    /\ [](Evaluating => calls.fit = (ci - 1) * NumFolds + fi - 1)
    /\ [](  pc \in {"restore", "commit", "save", "done"} =>
            /\ calls.reset = Len(combinations) * NumFolds
            /\ calls.fit = Len(combinations) * NumFolds)
\* A search of four combinations by two folds is over: eight resets, eight
\* fit+evaluate calls.
C25_Witness ==
    /\ pc = "done" /\ Len(combinations) = 4 /\ NumFolds = 2
    /\ calls.reset = 8 /\ calls.fit = 8

\* The stage has an entry under the key of the one token name.
Declares(elem, name) == \E j \in 1..Len(elem) : elem[j].k = <<name>>
IsTrainable(elem) ==
    Declares(elem, "in_y") \/ Declares(elem, "fit_on") \/ Declares(elem, "fit_on_batch")
\* The stages (1-based) that declare a save path and are trainable.
StagesToTrack ==
    {n \in 1..Len(config_json.pipe) :
        Declares(config_json.pipe[n], "save_path") /\ IsTrainable(config_json.pipe[n])}
Prepared == pc # "main"

\* C26: the paths to back up and reset are the save paths of the stages
\* that declare 'save_path' and one of 'in_y', 'fit_on', 'fit_on_batch', one
\* entry per such stage in the order of the stages; no other stage gives one.
C26_TrackedPaths ==
    Prepared =>
        /\ Len(models_paths) = Cardinality(StagesToTrack)
        /\ \A i \in 1..Len(models_paths) :
            \E n \in StagesToTrack :
                /\ Cardinality({h \in StagesToTrack : h < n}) = i - 1
                /\ \E j \in 1..Len(config_json.pipe[n]) :
                    /\ config_json.pipe[n][j].k = <<"save_path">>
                    /\ config_json.pipe[n][j].v.p = models_paths[i]
\* A prepared run over two trainable stages with a save path each: both
\* paths are tracked, in the order of the stages.
C26_Witness ==
    /\ Prepared
    /\ StagesToTrack = {1, 2}
    /\ Len(models_paths) = 2 /\ models_paths[1] # models_paths[2]

\* The keys of all the stages that end with the suffix, and the key without
\* its last token.
RangeKeys ==
    {key \in UNION {{config_json.pipe[n][j].k : j \in 1..Len(config_json.pipe[n])} :
                        n \in 1..Len(config_json.pipe)} :
        key # <<>> /\ key[Len(key)] = PARAM_RANGE_SUFFIX_NAME}
StripLast(key) == SubSeq(key, 1, Len(key) - 1)

\* C27: the parameter names of the search are the keys that end with
\* '_range' with that trailing suffix stripped, one axis entry per such key:
\* a parameter name followed by '_range' is a declaring key.
C27_TrailingSuffix ==
    Prepared =>
        /\ \A key \in RangeKeys : HasKey(param_values, StripLast(key))
        /\ \A i \in 1..Len(param_values) :
                (param_values[i].k \o <<PARAM_RANGE_SUFFIX_NAME>>) \in RangeKeys

\* The splits of the i-th combination, the pipeline it is evaluated with, and
\* the validation values of the target metric of its folds, one per fold.
SplitsOf(i) ==
    IF args.folds.kind = "loo" THEN LooFolds(AllData)
    ELSE KFolds(AllData, args.folds.n, source.shuffles[i])
PipeOf(i) == ApplyComb(config_json.pipe, combinations[i], chainer_items, param_names, 1)
ValuesOf(i) == [f \in 1..Len(SplitsOf(i)) |-> source.score[<<PipeOf(i), SplitsOf(i)[f]>>]]

\* C28: the score recorded for a combination is the arithmetic mean of the
\* validation values of the target metric of that combination's own folds,
\* one value per fold (m for leave-one-out, k for k-fold); while a
\* combination is evaluated the values collected are those of its own folds
\* so far and no other.
C28_MeanOfOwnFolds ==
    /\ \A i \in 1..Len(scores) :
            /\ Len(ValuesOf(i)) = NumFolds
            /\ scores[i] = MeanVal(SumSeq(ValuesOf(i)), NumFolds)
    /\ Evaluating =>
            /\ pipe = PipeOf(ci)
            /\ all_scores = [f \in 1..(fi - 1) |-> source.score[<<pipe, folds[f]>>]]
            /\ all_scores = SubSeq(ValuesOf(ci), 1, fi - 1)
\* A leave-one-out search is over: the two folds of the first combination
\* scored differently, and the second combination scored otherwise on the
\* first of the same folds.
C28_Witness ==
    /\ pc = "done" /\ args.folds.kind = "loo" /\ Len(scores) = 2
    /\ NumFolds = 2
    /\ ValuesOf(1) = <<1, 0>> /\ ValuesOf(2) = <<0, 0>>
    /\ scores[1] = MeanVal(1, 2) /\ scores[2] = MeanVal(0, 2)

\* C29: every split of every fold has an empty 'test' list and holds no item
\* of the test partition, and no step of a run changes the dataset: after a
\* scoring call its 'train', 'valid' and 'test' lists have the elements they
\* had, in the same order.
C29_DataUntouched ==
    /\ [](\A f \in 1..Len(folds) :
            /\ folds[f].test = <<>>
            /\ \A i \in 1..Len(data.test) :
                    data.test[i] \notin ItemsOf(folds[f].train) \cup ItemsOf(folds[f].valid))
    /\ [][data' = data]_vars
    /\ [](calc_loocv_data(data) = data /\ calc_cvfolds_data(data) = data)
\* The last leave-one-out fold of three items is about to be trained, the
\* test partition is not empty.
C29_Witness ==
    /\ pc = "train" /\ args.folds.kind = "loo"
    /\ data.test = <<"t">> /\ Len(data.train) = 2 /\ Len(data.valid) = 1
    /\ Len(folds) = 3 /\ fi = 3 /\ ci = 2

\* C30: the target metric is the first element of the 'metrics' list of the
\* configuration from the preparation to the end of the run, every fold of
\* every combination is read by it, and the best score is recorded under it.
C30_TargetMetric ==
    /\ [](Prepared => target_metric = config_json.metrics[1])
    /\ [](calls.metric \in {<<>>, config_json.metrics[1]})
    /\ [][calls'.fit = calls.fit + 1 /\ err' # "EvaluationError" =>
            calls'.metric = config_json.metrics[1]]_vars
    /\ [](pc \in {"restore", "commit", "save", "done"} =>
            /\ calls.metric = IF calls.fit = 0 THEN <<>> ELSE config_json.metrics[1]
            /\ HasKey(best_params_dict, config_json.metrics[1])
            /\ ~HasKey(best_params_dict, config_json.metrics[2]))
\* A search of four combinations by two folds is over, each of its eight
\* folds read by the first of the two metrics.
C30_Witness ==
    /\ pc = "done" /\ Len(combinations) = 4 /\ calls.fit = 8
    /\ Len(config_json.metrics) = 2 /\ config_json.metrics[1] # config_json.metrics[2]
    /\ calls.metric = config_json.metrics[1]
    /\ target_metric = <<"acc">>

\* C31: when every fit+evaluate call returns, every run ends; a run in which
\* nothing raises ends with the best-configuration file written; and the
\* last fold of the last combination, the selection of the best combination,
\* the restore of the artifacts and the write of the file come in this order.
C31_Termination ==
    /\ <>Terminated
    /\ ([](err = "")) => <>(pc = "done" /\ saved # <<>>)
    /\ [][(pc = "train" /\ pc' = "comb" /\ ci' > Len(combinations)) =>
            fi = Len(folds) /\ ci = Len(combinations)]_vars
    /\ [][pc' = "restore" =>
            /\ pc = "comb" /\ ci > Len(combinations)
            /\ Len(scores) = Len(combinations)
            /\ calls.fit = Len(combinations) * NumFolds
            /\ best_params_dict = <<>> /\ best_params_dict' # <<>>]_vars
    /\ [][pc' = "commit" => pc = "restore" /\ best_params_dict # <<>>]_vars
    /\ [][pc' = "save" => pc = "commit"]_vars
    /\ [][saved' # saved => pc = "save" /\ pc' = "done" /\ saved = <<>>]_vars
\* A run of four combinations by two folds has ended without an error, the
\* file written.
C31_Witness ==
    /\ pc = "done" /\ err = "" /\ saved # <<>>
    /\ Len(scores) = 4 /\ NumFolds = 2 /\ calls.fit = 8 /\ calls.backup = 1
    /\ best_params_dict # <<>>

\* The user's original artifact of path p is on disk, at p or at its backup
\* name (no run writes a file with that content).
OriginalKept(fsys, p) == fsys[Orig(p)] = UserFile \/ fsys[Backuped(p)] = UserFile

\* C32: over any sequence of runs, a run after an aborted one included, no
\* step loses the user's original artifact of a tracked path (it stays at the
\* path or at its backup name), and a run that completes normally ends with
\* it at the path.
C32_OriginalKeptAcrossRuns ==
    /\ [][\A p \in PathNames : OriginalKept(fs, p) => OriginalKept(fs', p)]_vars
    /\ [](pc = "done" => \A p \in TrackedSet : OriginalKept(fs, p) => fs[Orig(p)] = UserFile)

\* The artifacts are restored: every tracked path holds what it held when the
\* run started and no backup is left.
ArtifactsRestored ==
    \A p \in TrackedSet : fs[Orig(p)] = fs0[Orig(p)] /\ ~IsFile(fs, Backuped(p))
\* The restore comes before the commit and the write, and a run that fails
\* in the commit or the write leaves the artifacts restored.
RestoreThenCommit ==
    /\ [][pc' = "commit" =>
            /\ pc = "restore"
            /\ fs' = restore_saved_models(delete_saved_model(fs, models_paths), models_paths)]_vars
    /\ [][pc' = "save" => pc = "commit" /\ fs' = fs]_vars
    /\ [][saved' # saved => pc = "save" /\ fs' = fs]_vars
    /\ []((pc \in {"commit", "save", "done"} \/ (pc = "aborted" /\ err = "KeyError: range"))
            => ArtifactsRestored)

\* C33: the pipeline of the best configuration is modified only by the
\* commit, which comes after the restore, as does the write of the file; a
\* failure of the commit or of the write leaves the artifacts restored.
C33_RestoreBeforeCommit ==
    /\ [][pipe' # pipe => pc = "commit"]_vars
    /\ RestoreThenCommit

\* C34: the best-configuration file is never written under the name of the
\* configuration file that was read: the output path differs from the path
\* find_config has returned.
C34_OutputIsNotInput ==
    saved # <<>> => saved[1].name # find_config(args.config_path)

\* Some axis of the configuration has no candidate; the grid has been made.
EmptyAxis == \E i \in 1..Len(DeclaredAxes) : DeclaredAxes[i].values = <<>>
GridStarted == pc \in {"comb", "fold", "train", "restore", "commit", "save", "done"}

\* C35: when some axis has an empty candidate list, the grid has no
\* combination, no fit+evaluate call is made, no best-configuration file is
\* written, and a grid search that gets to the selection ends there with an
\* error.
C35_EmptyAxis ==
    EmptyAxis =>
        /\ GridStarted => combinations = <<>>
        /\ pc \notin {"fold", "train"} /\ calls.fit = 0 /\ scores = <<>>
        /\ saved = <<>>
        /\ pc \notin {"restore", "commit", "save", "done"}
        /\ (Terminated /\ args.search_type = "grid" /\ err # "OSError") => err = "ValueError"

\* Two stages have declared the same save path: it is tracked twice.
TrackedTwice == Len(models_paths) = 2 /\ models_paths[1] = models_paths[2]
TrackedOnce == <<models_paths[1]>>

\* C36: when a path is tracked twice, the backup, each reset and the restore
\* do what they do for the path tracked once, the second occurrence changing
\* nothing; a rename can fail only at the first occurrence; and a run that
\* completes leaves the path with its original content and no backup.
C36_SamePathTwice ==
    /\ [][(TrackedTwice /\ pc = "backup" /\ pc' = "search") =>
            /\ fs' = backup_saved_models(fs, TrackedOnce)
            /\ BackupOne(fs', models_paths[2]) = fs']_vars
    /\ [][(TrackedTwice /\ pc = "fold" /\ pc' = "train") =>
            /\ fs' = delete_saved_model(fs, TrackedOnce)
            /\ DeleteOne(fs', models_paths[2]) = fs']_vars
    /\ [][(TrackedTwice /\ pc = "restore" /\ pc' = "commit") =>
            /\ fs' = restore_saved_models(delete_saved_model(fs, TrackedOnce), TrackedOnce)
            /\ RestoreOne(fs', models_paths[2]) = fs']_vars
    /\ [][(TrackedTwice /\ pc = "backup" /\ err' = "OSError") => fs' = fs]_vars
    /\ [][(TrackedTwice /\ pc = "restore" /\ err' = "OSError") =>
            fs' = delete_saved_model(fs, TrackedOnce)]_vars
    /\ []((TrackedTwice /\ pc \in {"commit", "save", "done"}) =>
            /\ fs[Orig(models_paths[1])] = fs0[Orig(models_paths[1])]
            /\ fs0[Orig(models_paths[1])] = UserFile
            /\ ~IsFile(fs, Backuped(models_paths[1])))
\* A run over a path tracked twice has completed, its folds having trained
\* an artifact at the path.
C36_Witness ==
    /\ TrackedTwice /\ pc = "done" /\ err = ""
    /\ calls.backup = 1 /\ calls.reset > 0 /\ calls.fit = calls.reset
    /\ fs[Orig(models_paths[1])] = UserFile

=============================================================================
